---- MODULE Spec2Model ----
(***************************************************************************)
(* A model of bring.Buffer (src/buffer.go, final revision, lines 314-775): *)
(* a growable ring of fixed-size byte blocks with a read cursor, a write   *)
(* cursor and the counters left / cap / maxCap.                            *)
(*                                                                         *)
(* The buffer object is the record rb.  Its fields are the fields of the   *)
(* Go struct plus the heap of container/ring nodes it points into:         *)
(*   next[k]  the successor of ring node k   (ring.Ring.next)              *)
(*   val[k]   the byte block of node k       (ring.Ring.Value)             *)
(* Nodes are numbered in allocation order, node 0 is the nil pointer.      *)
(* Every method is an operator from the buffer (and its arguments) to a    *)
(* result record; the actions apply these operators.  A result's st field  *)
(* is "ok", "assert" (a failed assert.True), "panic" (a Go run-time panic  *)
(* or the panic of readFrom; like a failed assert it aborts the call with  *)
(* the buffer as it is at that point) or "hang" (a loop that never ends).  *)
(*                                                                         *)
(* The buffer never inspects the bytes it stores, so payload bytes are     *)
(* stamps 1..NumStamps that continue the sequence appended so far; 0 is    *)
(* the zero byte of a freshly made block or destination.  What the code    *)
(* does with a block does not depend on the value of MinBlockSize, so the  *)
(* specifications that explore the operations start from buffers made with *)
(* a scaled-down floor of the block size, BlockFloor in place of the 512   *)
(* of MinBlockSize (NewSmall); SpecNew starts from the buffers of New      *)
(* itself.  MaxBytes bounds the total capacity the ring may grow to (and,  *)
(* in a ring that is larger from the start, the offset the write cursor    *)
(* may reach), MaxLen the length of a payload or of a destination.         *)
(***************************************************************************)
EXTENDS Integers, Sequences, FiniteSets, TLC

MinBlockSize == 512

MinBlockCount == 1

\* The floor of the block size in the scaled-down buffers.
BlockFloor == 2

MaxBytes == 6

MaxLen == 3

NumStamps == 3

MaxStray == 1

\* The most pulls a source answers before it signals end-of-stream or an
\* error or, to ReadFromPipe, returns less than offered.
MaxPulls == 2

\* rb       the buffer
\* content  the bytes appended and not yet consumed or discarded since the
\*          last full reset, as the callers know them (history variable)
\* st       how the last call ended: "ok", "assert", "panic" or "hang"
\* pc       whether a ReadFrom / ReadFromPipe call is under way, its total
\*          so far, the length of content when it began, and the pulls
\*          its source may still answer without giving the call a reason
\*          to return (more, used by SpecLive only)
\* stray    the calls made on a buffer that no longer held what its
\*          callers expected
VARIABLES rb, content, st, pc, stray

vars == <<rb, content, st, pc, stray>>

Min(a, b) == IF a < b THEN a ELSE b

Zeros(n) == [k \in 1..n |-> 0]

Take(s, n) == SubSeq(s, 1, Min(n, Len(s)))

Drop(s, n) == SubSeq(s, Min(n, Len(s)) + 1, Len(s))

(***************************************************************************)
(* container/ring                                                          *)
(***************************************************************************)

\* ring.New(n) on a heap that already holds Len(next) nodes: n fresh nodes
\* Len(next)+1 .. Len(next)+n linked into a cycle; the first is the result.
RingNew(next, n) ==
    next \o [j \in 1..n |-> IF j = n THEN Len(next) + 1 ELSE Len(next) + j + 1]

\* r.Prev(): the node whose successor is r.
RingPrev(next, r) == CHOOSE p \in 1..Len(next) : next[p] = r

\* r.Link(s) for s of another ring: r.Next() becomes s, and s.Prev() is
\* followed by the former r.Next().
RingLink(next, r, s) ==
    LET n == next[r]
        p == RingPrev(next, s)
    IN [next EXCEPT ![r] = s, ![p] = n]

\* r.Len(): the number of nodes of the ring through r.
RECURSIVE RingWalk(_, _, _, _)
RingWalk(next, r, k, c) ==
    IF next[k] = r THEN c ELSE RingWalk(next, r, next[k], c + 1)

RingLen(next, r) == RingWalk(next, r, r, 1)

ringBytes(b, r) == b.val[r]

(***************************************************************************)
(* Construction and reset                                                  *)
(***************************************************************************)

\* A faulty Reset: the cursors go to the first block allocated.
Reset_AtOrigin(b) ==
    [b EXCEPT !.pw = [r |-> 1, i |-> 0],
              !.pr = [r |-> 1, i |-> 0],
              !.left = 0,
              !.cap = b.maxCap]

Reset(b) ==
    [b EXCEPT !.pw = [r |-> b.pw.r, i |-> 0],
              !.pr = [r |-> b.pw.r, i |-> 0],
              !.left = 0,
              !.cap = b.maxCap]

\* A faulty New: the block size is not floored.
NewOf_NoSizeFloor(floor, ns) ==
    LET size == IF Len(ns) >= 1 THEN ns[1] ELSE 0
        n0 == IF Len(ns) > 1 THEN ns[2] ELSE 0
        n == IF n0 < MinBlockCount THEN MinBlockCount ELSE n0
        next == RingNew(<<>>, n)
    IN Reset([next |-> next,
              val |-> [k \in 1..n |-> Zeros(size)],
              pr |-> [r |-> 0, i |-> 0],
              pw |-> [r |-> 1, i |-> 0],
              blockSize |-> size,
              left |-> 0,
              cap |-> 0,
              maxCap |-> size * n])

\* New(ns...) with floor for the floor of the block size.
NewOf(floor, ns) ==
    LET size0 == IF Len(ns) >= 1 THEN ns[1] ELSE 0
        n0 == IF Len(ns) > 1 THEN ns[2] ELSE 0
        size == IF size0 < floor THEN floor ELSE size0
        n == IF n0 < MinBlockCount THEN MinBlockCount ELSE n0
        next == RingNew(<<>>, n)
    IN Reset([next |-> next,
              val |-> [k \in 1..n |-> Zeros(size)],
              pr |-> [r |-> 0, i |-> 0],
              pw |-> [r |-> 1, i |-> 0],
              blockSize |-> size,
              left |-> 0,
              cap |-> 0,
              maxCap |-> size * n])

New(ns) == NewOf(MinBlockSize, ns)

NewSmall(ns) == NewOf(BlockFloor, ns)

Close(b) == [rb |-> Reset(b), err |-> "nil"]

Cap(b) == b.cap

MaxCap(b) == b.maxCap

BufLen(b) == b.left

(***************************************************************************)
(* stepNext and grow                                                       *)
(***************************************************************************)

\* A faulty stepNext: the block the read cursor leaves is not given back
\* to cap.
stepNext_NoReclaim(b, check) ==
    IF b.pr.i # b.blockSize \/ b.pr.r = b.pw.r
    THEN [rb |-> b, st |-> IF check THEN "assert" ELSE "ok"]
    ELSE [rb |-> [b EXCEPT !.pr = [r |-> b.next[b.pr.r], i |-> 0]],
          st |-> "ok"]

stepNext(b, check) ==
    IF b.pr.i # b.blockSize \/ b.pr.r = b.pw.r
    THEN [rb |-> b, st |-> IF check THEN "assert" ELSE "ok"]
    ELSE [rb |-> [b EXCEPT !.pr = [r |-> b.next[b.pr.r], i |-> 0],
                           !.cap = @ + b.blockSize],
          st |-> "ok"]

\* A faulty grow: the least number of blocks that hold n bytes, not one
\* more than the whole blocks in n.
grow_Ceil(b, n) ==
    LET m == (n + b.blockSize - 1) \div b.blockSize
        newR == Len(b.next) + 1
        delta == m * b.blockSize
    IN [b EXCEPT !.next = RingLink(RingNew(b.next, m), b.pw.r, newR),
                 !.val = b.val \o [j \in 1..m |-> Zeros(b.blockSize)],
                 !.cap = @ + delta,
                 !.maxCap = @ + delta]

\* A faulty grow: maxCap is not raised.
grow_NoMaxCap(b, n) ==
    LET m == (n \div b.blockSize) + 1
        newR == Len(b.next) + 1
        delta == m * b.blockSize
    IN [b EXCEPT !.next = RingLink(RingNew(b.next, m), b.pw.r, newR),
                 !.val = b.val \o [j \in 1..m |-> Zeros(b.blockSize)],
                 !.cap = @ + delta]

\* A faulty grow: the new blocks are linked in behind the read cursor's
\* block instead of the write cursor's.
grow_AtReadCursor(b, n) ==
    LET m == (n \div b.blockSize) + 1
        newR == Len(b.next) + 1
        delta == m * b.blockSize
    IN [b EXCEPT !.next = RingLink(RingNew(b.next, m), b.pr.r, newR),
                 !.val = b.val \o [j \in 1..m |-> Zeros(b.blockSize)],
                 !.cap = @ + delta,
                 !.maxCap = @ + delta]

grow(b, n) ==
    LET m == (n \div b.blockSize) + 1
        newR == Len(b.next) + 1
        delta == m * b.blockSize
    IN [b EXCEPT !.next = RingLink(RingNew(b.next, m), b.pw.r, newR),
                 !.val = b.val \o [j \in 1..m |-> Zeros(b.blockSize)],
                 !.cap = @ + delta,
                 !.maxCap = @ + delta]

(***************************************************************************)
(* Write, WriteString, WriteByte                                           *)
(***************************************************************************)

\* copy(buf[pw.i:], p[offset:]) into the block under the write cursor.
CopyIn(b, p, offset, cnt) ==
    [b EXCEPT !.val[b.pw.r] =
        [k \in 1..b.blockSize |->
            IF k > b.pw.i /\ k <= b.pw.i + cnt
            THEN p[offset + k - b.pw.i]
            ELSE b.val[b.pw.r][k]]]

RECURSIVE WriteLoop(_, _, _)
WriteLoop(b, p, offset) ==
    LET cnt == Min(b.blockSize - b.pw.i, Len(p) - offset)
        b1 == [CopyIn(b, p, offset, cnt) EXCEPT !.pw.i = @ + cnt,
                                               !.cap = @ - cnt,
                                               !.left = @ + cnt]
    IN IF Len(p) = offset + cnt
       THEN [rb |-> b1, st |-> "ok"]
       ELSE IF b1.pw.i # b1.blockSize
       THEN [rb |-> b1, st |-> "assert"]
       ELSE WriteLoop([b1 EXCEPT !.pw = [r |-> b1.next[b1.pw.r], i |-> 0]],
                      p, offset + cnt)

Write(b, p) ==
    LET lenp == Len(p)
        b0 == IF b.cap < lenp THEN grow(b, lenp - b.cap) ELSE b
    IN IF b0.cap < lenp
       THEN [rb |-> b0, n |-> 0, err |-> "nil", st |-> "assert"]
       ELSE LET w == WriteLoop(b0, p, 0)
            IN [rb |-> w.rb, n |-> lenp, err |-> "nil", st |-> w.st]

WriteString(b, s) ==
    LET lens == Len(s)
        b0 == IF b.cap < lens THEN grow(b, lens - b.cap) ELSE b
    IN IF b0.cap < lens
       THEN [rb |-> b0, n |-> 0, err |-> "nil", st |-> "assert"]
       ELSE LET w == WriteLoop(b0, s, 0)
            IN [rb |-> w.rb, n |-> lens, err |-> "nil", st |-> w.st]

WriteByte(b, c) ==
    LET b0 == IF b.cap = 0 THEN grow(b, 1) ELSE b
        b1 == IF b0.pw.i = b0.blockSize
              THEN [b0 EXCEPT !.pw = [r |-> b0.next[b0.pw.r], i |-> 0]]
              ELSE b0
    IN [rb |-> [b1 EXCEPT !.val[b1.pw.r][b1.pw.i + 1] = c,
                          !.pw.i = @ + 1,
                          !.left = @ + 1,
                          !.cap = @ - 1],
        err |-> "nil", st |-> "ok"]

(***************************************************************************)
(* Read, ReadByte                                                          *)
(***************************************************************************)

\* The loop of Read; p is the destination, offset the bytes copied so far.
RECURSIVE ReadLoop(_, _, _)
ReadLoop(b, p, offset) ==
    LET end == IF b.pr.r = b.pw.r THEN b.pw.i ELSE b.blockSize
    IN IF b.pr.i > end
       THEN [rb |-> b, p |-> p, st |-> "panic"]
       ELSE
        LET count == Min(Len(p) - offset, end - b.pr.i)
            p1 == [k \in 1..Len(p) |->
                     IF k > offset /\ k <= offset + count
                     THEN ringBytes(b, b.pr.r)[b.pr.i + k - offset]
                     ELSE p[k]]
            b1 == [b EXCEPT !.pr.i = @ + count, !.left = @ - count]
        IN IF b1.left = 0 \/ offset + count = Len(p)
           THEN [rb |-> stepNext(b1, FALSE).rb, p |-> p1, st |-> "ok"]
           ELSE LET s == stepNext(b1, TRUE)
                IN IF s.st # "ok"
                   THEN [rb |-> s.rb, p |-> p1, st |-> s.st]
                   ELSE ReadLoop(s.rb, p1, offset + count)

\* A faulty Read: a Read that takes the last byte reports EOF with it.
Read_EofOnDrain(b, lenp) ==
    IF lenp = 0
    THEN [rb |-> b, n |-> 0, err |-> "nil", p |-> <<>>, st |-> "ok"]
    ELSE IF b.left = 0
    THEN [rb |-> b, n |-> 0, err |-> "EOF", p |-> Zeros(lenp), st |-> "ok"]
    ELSE LET n == IF b.left > lenp THEN lenp ELSE b.left
             r == ReadLoop(b, Zeros(lenp), 0)
         IN [rb |-> IF r.st = "ok" /\ r.rb.left = 0 THEN Reset(r.rb) ELSE r.rb,
             n |-> n, err |-> IF r.rb.left = 0 THEN "EOF" ELSE "nil",
             p |-> r.p, st |-> r.st]

\* Read(p) with p a destination of lenp zero bytes; the result's p is the
\* destination after the call.
Read(b, lenp) ==
    IF lenp = 0
    THEN [rb |-> b, n |-> 0, err |-> "nil", p |-> <<>>, st |-> "ok"]
    ELSE IF b.left = 0
    THEN [rb |-> b, n |-> 0, err |-> "EOF", p |-> Zeros(lenp), st |-> "ok"]
    ELSE LET n == IF b.left > lenp THEN lenp ELSE b.left
             r == ReadLoop(b, Zeros(lenp), 0)
         IN [rb |-> IF r.st = "ok" /\ r.rb.left = 0 THEN Reset(r.rb) ELSE r.rb,
             n |-> n, err |-> "nil", p |-> r.p, st |-> r.st]

\* A faulty ReadByte: no Reset when it takes the last byte.
ReadByte_NoReset(b) ==
    IF b.left = 0
    THEN [rb |-> b, c |-> 0, err |-> "EOF", st |-> "ok"]
    ELSE IF b.pr.i >= b.blockSize
    THEN [rb |-> b, c |-> 0, err |-> "nil", st |-> "panic"]
    ELSE LET c == ringBytes(b, b.pr.r)[b.pr.i + 1]
             b1 == [b EXCEPT !.pr.i = @ + 1, !.left = @ - 1]
         IN IF b1.left # 0 /\ b1.pr.i = b1.blockSize
            THEN LET s == stepNext(b1, TRUE)
                 IN [rb |-> s.rb, c |-> c, err |-> "nil", st |-> s.st]
            ELSE [rb |-> b1, c |-> c, err |-> "nil", st |-> "ok"]

ReadByte(b) ==
    IF b.left = 0
    THEN [rb |-> b, c |-> 0, err |-> "EOF", st |-> "ok"]
    ELSE IF b.pr.i >= b.blockSize
    THEN [rb |-> b, c |-> 0, err |-> "nil", st |-> "panic"]
    ELSE LET c == ringBytes(b, b.pr.r)[b.pr.i + 1]
             b1 == [b EXCEPT !.pr.i = @ + 1, !.left = @ - 1]
         IN IF b1.left = 0
            THEN [rb |-> Reset(b1), c |-> c, err |-> "nil", st |-> "ok"]
            ELSE IF b1.pr.i = b1.blockSize
            THEN LET s == stepNext(b1, TRUE)
                 IN [rb |-> s.rb, c |-> c, err |-> "nil", st |-> s.st]
            ELSE [rb |-> b1, c |-> c, err |-> "nil", st |-> "ok"]

(***************************************************************************)
(* Truncate, Skip, Peek                                                    *)
(***************************************************************************)

RECURSIVE TruncateLoop(_, _)
TruncateLoop(b, m) ==
    IF m <= 0
    THEN b
    ELSE IF b.blockSize - b.pw.i < m
    THEN LET b1 == [b EXCEPT !.pw = [r |-> b.next[b.pw.r], i |-> 0]]
         IN TruncateLoop(b1, m - (b1.blockSize - b1.pw.i))
    ELSE [b EXCEPT !.pw.i = @ + m]

\* A faulty Truncate: n <= 0 leaves the buffer as it is.
Truncate_ZeroKeeps(b, n) ==
    IF n <= 0
    THEN b
    ELSE IF n >= b.left
    THEN b
    ELSE TruncateLoop([b EXCEPT !.cap = @ + (b.left - n),
                                !.left = n,
                                !.pw = b.pr], n)

Truncate(b, n) ==
    IF n <= 0
    THEN Reset(b)
    ELSE IF n >= b.left
    THEN b
    ELSE TruncateLoop([b EXCEPT !.cap = @ + (b.left - n),
                                !.left = n,
                                !.pw = b.pr], n)

\* for cnt > 0 { pr.r = pr.r.Next(); cap += blockSize; cnt-- }
RECURSIVE SkipBlocks(_, _)
SkipBlocks(b, cnt) ==
    IF cnt <= 0
    THEN b
    ELSE SkipBlocks([b EXCEPT !.pr.r = b.next[b.pr.r],
                              !.cap = @ + b.blockSize], cnt - 1)

Skip(b, n0) ==
    LET n == IF n0 > b.left THEN b.left ELSE n0
    IN IF n <= 0
       THEN b
       ELSE
        LET b1 == [b EXCEPT !.left = @ - n]
            n1 == n - (b.blockSize - b.pr.i)
            tail == n1 % b.blockSize
            cnt == n1 \div b.blockSize
        IN IF b1.left = 0
           THEN Reset(b1)
           ELSE IF b1.pr.i + n <= b1.blockSize
           THEN stepNext([b1 EXCEPT !.pr.i = @ + n], FALSE).rb
           ELSE IF tail > 0
           THEN [SkipBlocks(b1, cnt + 1) EXCEPT !.pr.i = tail]
           ELSE stepNext([SkipBlocks(b1, cnt) EXCEPT !.pr.i = b.blockSize],
                         FALSE).rb

\* The loop of Peek.  A round of the ring that adds no byte repeats for
\* ever; fuel is large enough that only such a loop exhausts it.
RECURSIVE PeekLoop(_, _, _, _, _)
PeekLoop(b, prg, total, list, fuel) ==
    IF total <= 0
    THEN [list |-> list, st |-> "ok"]
    ELSE IF fuel = 0
    THEN [list |-> list, st |-> "hang"]
    ELSE
     LET end == IF prg = b.pw.r THEN b.pw.i ELSE b.blockSize
         start == IF prg = b.pr.r THEN b.pr.i ELSE 0
     IN IF start > end
        THEN [list |-> list, st |-> "panic"]
        ELSE PeekLoop(b, b.next[prg], total - (end - start),
                      Append(list, SubSeq(ringBytes(b, prg), start + 1, end)),
                      fuel - 1)

Peek(b) ==
    IF b.left = 0
    THEN [list |-> <<>>, st |-> "ok"]
    ELSE PeekLoop(b, b.pr.r, b.left, <<>>, (b.left + 1) * Len(b.next))

RECURSIVE Concat(_)
Concat(list) ==
    IF list = <<>> THEN <<>> ELSE Head(list) \o Concat(Tail(list))

(***************************************************************************)
(* WriteTo, writeTo, Bytes, String                                         *)
(*                                                                         *)
(* A sink w is an io.Writer: [all, perCall, shortErr].  One Write call on  *)
(* it accepts all bytes offered (all), or at most perCall of them, and     *)
(* reports an error with a short acceptance when shortErr.                 *)
(***************************************************************************)

SinkWrite(w, s) ==
    LET n == IF w.all THEN Len(s) ELSE Min(w.perCall, Len(s))
    IN [n |-> n,
        err |-> IF n < Len(s) /\ w.shortErr THEN "short write" ELSE "nil"]

\* net.Buffers.WriteTo for a sink that is no buffersWriter: one Write call
\* per span, the counts added up, stopping at the first error.
RECURSIVE BuffersWriteTo(_, _, _, _, _)
BuffersWriteTo(w, list, k, n, got) ==
    IF k > Len(list)
    THEN [n |-> n, err |-> "nil", got |-> got]
    ELSE LET r == SinkWrite(w, list[k])
             n1 == n + r.n
             got1 == got \o Take(list[k], r.n)
         IN IF r.err # "nil"
            THEN [n |-> n1, err |-> r.err, got |-> got1]
            ELSE BuffersWriteTo(w, list, k + 1, n1, got1)

\* The result's got is what the sink received.
WriteTo(b, w) ==
    IF b.left = 0
    THEN [rb |-> b, n |-> 0, err |-> "nil", got |-> <<>>, st |-> "ok"]
    ELSE IF b.pr.i + b.left <= b.blockSize
    THEN LET s == SubSeq(ringBytes(b, b.pr.r), b.pr.i + 1, b.pr.i + b.left)
             r == SinkWrite(w, s)
             cnt == IF r.n < 0 THEN 0 ELSE r.n
             b1 == [b EXCEPT !.pr.i = @ + cnt, !.left = @ - cnt]
         IN [rb |-> IF b1.left = 0 THEN Reset(b1) ELSE b1,
             n |-> cnt, err |-> r.err, got |-> Take(s, cnt), st |-> "ok"]
    ELSE LET pk == Peek(b)
         IN IF pk.st # "ok"
            THEN [rb |-> b, n |-> 0, err |-> "nil", got |-> <<>>, st |-> pk.st]
            ELSE LET r == BuffersWriteTo(w, pk.list, 1, 0, <<>>)
                 IN [rb |-> Skip(b, r.n), n |-> r.n, err |-> r.err,
                     got |-> r.got, st |-> "ok"]

\* rb.pr, rb.pw, rb.cap, rb.left = pr, pw, c, l after the call that gave r;
\* a call that did not return restores nothing.
writeToRestore(b, r) ==
    IF r.st # "ok"
    THEN r
    ELSE [r EXCEPT !.rb = [r.rb EXCEPT !.pr = b.pr, !.pw = b.pw,
                                       !.cap = b.cap, !.left = b.left]]

writeTo(b, w) == writeToRestore(b, WriteTo(b, w))

\* bytes.Buffer as a sink: it takes every byte.
BytesBuffer == [all |-> TRUE, perCall |-> 0, shortErr |-> FALSE]

\* buf.Bytes() of the bytes.Buffer that the call r wrote to.
bufBytes(r) == [rb |-> r.rb, out |-> r.got, st |-> r.st]

Bytes(b) ==
    IF b.left = 0
    THEN [rb |-> b, out |-> <<>>, st |-> "ok"]
    ELSE bufBytes(writeTo(b, BytesBuffer))

String(b) == Bytes(b)

GoString(b) == String(b)

(***************************************************************************)
(* readFrom: one turn of its loop, with the answer (n, err) of the source  *)
(* to r.Read(buf) and the bytes data it put into buf.                      *)
(***************************************************************************)

\* A faulty readFrom: the count is added to the counters before it is
\* looked at.
readFromStep_LateCheck(b, pipe, n, err, data) ==
    LET lenbuf == b.blockSize - b.pw.i
        b1 == [b EXCEPT !.cap = @ - n, !.pw.i = @ + n, !.left = @ + n]
        b1c == [CopyIn(b, data, 0, n) EXCEPT !.cap = @ - n,
                                             !.pw.i = @ + n,
                                             !.left = @ + n]
        b2 == IF b1c.cap = 0 THEN grow(b1c, 1) ELSE b1c
        b3 == IF b2.pw.i = b2.blockSize
              THEN [b2 EXCEPT !.pw = [r |-> b2.next[b2.pw.r], i |-> 0]]
              ELSE b2
    IN IF n < 0
       THEN [rb |-> b1, n |-> 0, done |-> TRUE, st |-> "panic",
             err |-> "bring.Buffer: reader returned negative count from Read"]
       ELSE IF err # "nil" \/ (pipe /\ n < lenbuf)
       THEN [rb |-> b1c, n |-> n, done |-> TRUE, st |-> "ok",
             err |-> IF ~pipe /\ err = "EOF" THEN "nil" ELSE err]
       ELSE [rb |-> b3, n |-> n, done |-> FALSE, st |-> "ok", err |-> "nil"]

\* A faulty readFrom: the bytes pulled are not added to left.
readFromStep_NoLeft(b, pipe, n, err, data) ==
    LET lenbuf == b.blockSize - b.pw.i
        b1 == [CopyIn(b, data, 0, n) EXCEPT !.cap = @ - n,
                                            !.pw.i = @ + n]
        b2 == IF b1.cap = 0 THEN grow(b1, 1) ELSE b1
        b3 == IF b2.pw.i = b2.blockSize
              THEN [b2 EXCEPT !.pw = [r |-> b2.next[b2.pw.r], i |-> 0]]
              ELSE b2
    IN IF n < 0
       THEN [rb |-> b, n |-> 0, done |-> TRUE, st |-> "panic",
             err |-> "bring.Buffer: reader returned negative count from Read"]
       ELSE IF err # "nil" \/ (pipe /\ n < lenbuf)
       THEN [rb |-> b1, n |-> n, done |-> TRUE, st |-> "ok",
             err |-> IF ~pipe /\ err = "EOF" THEN "nil" ELSE err]
       ELSE [rb |-> b3, n |-> n, done |-> FALSE, st |-> "ok", err |-> "nil"]

readFromStep(b, pipe, n, err, data) ==
    LET lenbuf == b.blockSize - b.pw.i
        b1 == [CopyIn(b, data, 0, n) EXCEPT !.cap = @ - n,
                                            !.pw.i = @ + n,
                                            !.left = @ + n]
        b2 == IF b1.cap = 0 THEN grow(b1, 1) ELSE b1
        b3 == IF b2.pw.i = b2.blockSize
              THEN [b2 EXCEPT !.pw = [r |-> b2.next[b2.pw.r], i |-> 0]]
              ELSE b2
    IN IF n < 0
       THEN [rb |-> b, n |-> 0, done |-> TRUE, st |-> "panic",
             err |-> "bring.Buffer: reader returned negative count from Read"]
       ELSE IF err # "nil" \/ (pipe /\ n < lenbuf)
       THEN [rb |-> b1, n |-> n, done |-> TRUE, st |-> "ok",
             err |-> IF ~pipe /\ err = "EOF" THEN "nil" ELSE err]
       ELSE [rb |-> b3, n |-> n, done |-> FALSE, st |-> "ok", err |-> "nil"]

(***************************************************************************)
(* A Buffer as the sink of WriteTo and as the source of ReadFrom            *)
(***************************************************************************)

\* dst as an io.Writer that is no buffersWriter: one dst.Write per span.
RECURSIVE WriteSpans(_, _, _)
WriteSpans(dst, list, k) ==
    IF k > Len(list)
    THEN [rb |-> dst, st |-> "ok"]
    ELSE LET w == Write(dst, list[k])
         IN IF w.st # "ok"
            THEN [rb |-> w.rb, st |-> w.st]
            ELSE WriteSpans(w.rb, list, k + 1)

\* src.WriteTo(dst): dst.Write takes every byte it is offered, the one span
\* of the one-block path or the spans of Peek().
WriteToBuffer(src, dst) ==
    LET spans == IF src.left = 0
                 THEN <<>>
                 ELSE IF src.pr.i + src.left <= src.blockSize
                 THEN <<SubSeq(ringBytes(src, src.pr.r),
                               src.pr.i + 1, src.pr.i + src.left)>>
                 ELSE Peek(src).list
    IN [src |-> WriteTo(src, BytesBuffer), dst |-> WriteSpans(dst, spans, 1)]

\* dst.ReadFrom(src) and dst.ReadFromPipe(src): the loop of readFrom with
\* r.Read(buf) = src.Read of the rest of dst's write block.
RECURSIVE readFromBuffer(_, _, _, _)
RECURSIVE readFromBufferPull(_, _, _, _)
RECURSIVE readFromBufferTurn(_, _, _, _)
readFromBufferTurn(pipe, total, src, s) ==
    IF s.done \/ s.st # "ok"
    THEN [dst |-> s.rb, src |-> src, total |-> total + s.n,
          err |-> s.err, st |-> s.st]
    ELSE readFromBuffer(s.rb, src, pipe, total + s.n)

readFromBufferPull(dst, pipe, total, rd) ==
    IF rd.st # "ok"
    THEN [dst |-> dst, src |-> rd.rb, total |-> total,
          err |-> "nil", st |-> rd.st]
    ELSE readFromBufferTurn(pipe, total, rd.rb,
                            readFromStep(dst, pipe, rd.n, rd.err, rd.p))

readFromBuffer(dst, src, pipe, total) ==
    readFromBufferPull(dst, pipe, total,
                       Read(src, dst.blockSize - dst.pw.i))

(***************************************************************************)
(* The callers                                                             *)
(***************************************************************************)

NewArgs ==
    {<<>>} \cup {<<s>> : s \in 0..BlockFloor + 1}
           \cup {<<s, n>> : s \in 0..BlockFloor + 1, n \in 0..2}

\* Arguments of New around the floors of the source.
NewArgsFull ==
    LET sizes == {-1, 0, MinBlockSize - 1, MinBlockSize, MinBlockSize + 1}
    IN {<<>>} \cup {<<s>> : s \in sizes}
              \cup {<<s, n>> : s \in sizes, n \in -1..2}

Sinks ==
    {BytesBuffer} \cup
    {[all |-> FALSE, perCall |-> k, shortErr |-> e] :
        k \in 0..MaxLen, e \in BOOLEAN}

SourceErrs == {"nil", "EOF", "timeout"}

\* The n payload bytes that follow the bytes c.
Payload(c, n) ==
    LET first == IF c = <<>> THEN 1 ELSE (c[Len(c)] % NumStamps) + 1
    IN [k \in 1..n |-> ((first + k - 2) % NumStamps) + 1]

Payloads(c) == {Payload(c, n) : n \in 0..MaxLen}

NotCalling ==
    [at |-> "idle", pipe |-> FALSE, total |-> 0, start |-> 0, more |-> 0]

\* check(t, testname, buf, s) of the tests: the buffer holds s.
check(b, s) ==
    \E bytes \in {Bytes(b)} :
        /\ bytes.st = "ok"
        /\ BufLen(b) = Len(bytes.out)
        /\ BufLen(b) = Len(s)
        /\ bytes.out = s

\* A call that panicked or hangs ends the program.  The callers go on while
\* the buffer holds what they expect, and for at most MaxStray calls after
\* it ceased to.
CanCall == st = "ok" /\ (check(rb, content) \/ stray < MaxStray)

Idle == pc.at = "idle" /\ CanCall

Strayed == IF check(rb, content) THEN stray ELSE stray + 1

\* The ring grows to at most MaxBytes bytes; in a ring that is larger from
\* the start the write cursor stays within the first MaxBytes bytes of its
\* block.
Fits(b) ==
    \/ b.maxCap <= MaxBytes
    \/ b.maxCap = rb.maxCap /\ b.pw.i <= MaxBytes

Init ==
    /\ rb \in {NewSmall(ns) : ns \in NewArgs}
    /\ content = <<>>
    /\ st = "ok"
    /\ pc = NotCalling
    /\ stray = 0

CallReset ==
    /\ Idle
    /\ rb' = Reset(rb)
    /\ content' = <<>>
    /\ stray' = Strayed
    /\ UNCHANGED <<st, pc>>

CallClose ==
    /\ Idle
    /\ rb' = Close(rb).rb
    /\ content' = <<>>
    /\ stray' = Strayed
    /\ UNCHANGED <<st, pc>>

CallTruncate ==
    /\ Idle
    /\ \E n \in -1..rb.left + 1 :
        /\ rb' = Truncate(rb, n)
        /\ content' = IF n <= 0 THEN <<>> ELSE Take(content, n)
    /\ stray' = Strayed
    /\ UNCHANGED <<st, pc>>

CallSkip ==
    /\ Idle
    /\ \E n \in -1..rb.left + 1 :
        /\ rb' = Skip(rb, n)
        /\ content' = IF n <= 0 THEN content ELSE Drop(content, n)
    /\ stray' = Strayed
    /\ UNCHANGED <<st, pc>>

CallPeek ==
    /\ Idle
    /\ st' = Peek(rb).st
    /\ stray' = Strayed
    /\ UNCHANGED <<rb, content, pc>>

CallRead ==
    /\ Idle
    /\ \E lenp \in 0..MaxLen :
        LET r == Read(rb, lenp)
        IN /\ rb' = r.rb
           /\ content' = IF r.n > 0 THEN Drop(content, r.n) ELSE content
           /\ st' = r.st
    /\ stray' = Strayed
    /\ UNCHANGED pc

CallReadByte ==
    /\ Idle
    /\ LET r == ReadByte(rb)
       IN /\ rb' = r.rb
          /\ content' = IF r.err = "nil" THEN Drop(content, 1) ELSE content
          /\ st' = r.st
    /\ stray' = Strayed
    /\ UNCHANGED pc

CallWrite ==
    /\ Idle
    /\ \E p \in Payloads(content) :
        LET r == Write(rb, p)
        IN /\ Fits(r.rb)
           /\ rb' = r.rb
           /\ content' = content \o p
           /\ st' = r.st
    /\ stray' = Strayed
    /\ UNCHANGED pc

CallWriteString ==
    /\ Idle
    /\ \E s \in Payloads(content) :
        LET r == WriteString(rb, s)
        IN /\ Fits(r.rb)
           /\ rb' = r.rb
           /\ content' = content \o s
           /\ st' = r.st
    /\ stray' = Strayed
    /\ UNCHANGED pc

CallWriteByte ==
    /\ Idle
    /\ LET c == Payload(content, 1)[1]
           r == WriteByte(rb, c)
       IN /\ Fits(r.rb)
          /\ rb' = r.rb
          /\ content' = Append(content, c)
          /\ st' = r.st
    /\ stray' = Strayed
    /\ UNCHANGED pc

CallWriteTo ==
    /\ Idle
    /\ \E w \in Sinks :
        LET r == WriteTo(rb, w)
        IN /\ rb' = r.rb
           /\ content' = Drop(content, r.n)
           /\ st' = r.st
    /\ stray' = Strayed
    /\ UNCHANGED pc

CallBytes ==
    /\ Idle
    /\ rb' = Bytes(rb).rb
    /\ st' = Bytes(rb).st
    /\ stray' = Strayed
    /\ UNCHANGED <<content, pc>>

CallString ==
    /\ Idle
    /\ rb' = String(rb).rb
    /\ st' = String(rb).st
    /\ stray' = Strayed
    /\ UNCHANGED <<content, pc>>

\* ReadFrom(r) and ReadFromPipe(r) enter the loop of readFrom.
CallReadFrom ==
    /\ Idle
    /\ \E pipe \in BOOLEAN :
        pc' = [at |-> "readFrom", pipe |-> pipe, total |-> 0,
               start |-> Len(content), more |-> 0]
    /\ stray' = Strayed
    /\ UNCHANGED <<rb, content, st>>

\* One turn of the loop: the source answers r.Read(buf) with n bytes and err.
ReadFromPull ==
    /\ pc.at = "readFrom"
    /\ CanCall
    /\ \E n \in -1..(rb.blockSize - rb.pw.i), err \in SourceErrs :
        LET r == readFromStep(rb, pc.pipe, n, err, Payload(content, n))
        IN /\ Fits(r.rb)
           /\ rb' = r.rb
           /\ content' = content \o Payload(content, r.n)
           /\ st' = r.st
           /\ pc' = IF r.done THEN NotCalling
                    ELSE [pc EXCEPT !.total = @ + r.n]
    /\ stray' = Strayed

\* src.WriteTo(dst) with dst a fresh Buffer; the callers go on with dst.
CallWriteToBuffer ==
    /\ Idle
    /\ \E ns \in NewArgs :
        \E r \in {WriteToBuffer(rb, NewSmall(ns))} :
            /\ Fits(r.dst.rb)
            /\ rb' = r.dst.rb
            /\ st' = IF r.src.st # "ok" THEN r.src.st ELSE r.dst.st
    /\ stray' = Strayed
    /\ UNCHANGED <<content, pc>>

\* dst.ReadFrom(src) and dst.ReadFromPipe(src) with dst a fresh Buffer; the
\* callers go on with dst.
CallReadFromBuffer ==
    /\ Idle
    /\ \E ns \in NewArgs, pipe \in BOOLEAN :
        \E r \in {readFromBuffer(NewSmall(ns), rb, pipe, 0)} :
            /\ Fits(r.dst)
            /\ rb' = r.dst
            /\ st' = r.st
    /\ stray' = Strayed
    /\ UNCHANGED <<content, pc>>

Next ==
    \/ CallReset
    \/ CallClose
    \/ CallTruncate
    \/ CallSkip
    \/ CallPeek
    \/ CallRead
    \/ CallReadByte
    \/ CallWrite
    \/ CallWriteString
    \/ CallWriteByte
    \/ CallWriteTo
    \/ CallBytes
    \/ CallString
    \/ CallReadFrom
    \/ ReadFromPull
    \/ CallWriteToBuffer
    \/ CallReadFromBuffer

Spec == Init /\ [][Next]_vars

\* Callers that only append and read: Write, WriteString, WriteByte, Read
\* and ReadByte (and look at the content with Bytes).
NextRW ==
    \/ CallRead
    \/ CallReadByte
    \/ CallWrite
    \/ CallWriteString
    \/ CallWriteByte
    \/ CallBytes

SpecRW == Init /\ [][NextRW]_vars

\* Callers that append (Write, WriteString, WriteByte, ReadFrom,
\* ReadFromPipe), consume (Read, ReadByte, Skip, WriteTo) and reset.
NextAC ==
    \/ CallReset
    \/ CallClose
    \/ CallSkip
    \/ CallRead
    \/ CallReadByte
    \/ CallWrite
    \/ CallWriteString
    \/ CallWriteByte
    \/ CallWriteTo
    \/ CallReadFrom
    \/ ReadFromPull

SpecAC == Init /\ [][NextAC]_vars

\* The buffers of New with the floors of the source, and callers that append
\* and read.
InitNew ==
    /\ rb \in {New(ns) : ns \in NewArgsFull}
    /\ content = <<>>
    /\ st = "ok"
    /\ pc = NotCalling
    /\ stray = 0

SpecNew == InitNew /\ [][NextRW]_vars

\* ReadFrom / ReadFromPipe on a source that gives the call a reason to return
\* after at most pc.more other pulls.
CallReadFromSource ==
    /\ Idle
    /\ \E pipe \in BOOLEAN, k \in 0..MaxPulls :
        pc' = [at |-> "readFrom", pipe |-> pipe, total |-> 0,
               start |-> Len(content), more |-> k]
    /\ stray' = Strayed
    /\ UNCHANGED <<rb, content, st>>

\* One turn of the loop of readFrom on such a source: with pc.more = 0 the
\* source signals end-of-stream or an error or, to ReadFromPipe, returns
\* less than the region offered.
Pull ==
    /\ pc.at = "readFrom"
    /\ pc.more >= 0
    /\ st = "ok"
    /\ \E n \in -1..(rb.blockSize - rb.pw.i), err \in SourceErrs :
        /\ \/ pc.more > 0
           \/ err # "nil"
           \/ pc.pipe /\ n < rb.blockSize - rb.pw.i
        /\ \E r \in {readFromStep(rb, pc.pipe, n, err, Payload(content, n))} :
            /\ Fits(r.rb)
            /\ rb' = r.rb
            /\ content' = content \o Payload(content, r.n)
            /\ st' = r.st
            /\ pc' = IF r.done THEN NotCalling
                     ELSE [pc EXCEPT !.total = @ + r.n, !.more = @ - 1]

SourcePull == Pull /\ stray' = Strayed

NextLive ==
    \/ CallTruncate
    \/ CallSkip
    \/ CallPeek
    \/ CallRead
    \/ CallWrite
    \/ CallReadFromSource
    \/ SourcePull

\* The loop of readFrom goes on while the call is under way: a pull that can
\* be made is made, whatever it does to the history variable stray.
SpecLive ==
    Init /\ [][NextLive]_vars /\ WF_vars(Pull /\ stray' \in {stray, stray + 1})

(***************************************************************************)
(* What the claims speak of                                                *)
(***************************************************************************)

\* The buffers one more completed call can leave, for every argument.
AfterCall(b) ==
    {Reset(b), Close(b).rb, Bytes(b).rb}
    \cup {Truncate(b, n) : n \in -1..b.left + 1}
    \cup {Skip(b, n) : n \in -1..b.left + 1}
    \cup {r.rb : r \in {x \in {Read(b, lenp) : lenp \in 0..MaxLen} :
                            x.st = "ok"}}
    \cup {r.rb : r \in {x \in {ReadByte(b)} : x.st = "ok"}}
    \cup {r.rb : r \in {x \in {Write(b, p) : p \in Payloads(content)} :
                            x.st = "ok"}}
    \cup {r.rb : r \in {x \in {WriteString(b, p) : p \in Payloads(content)} :
                            x.st = "ok"}}
    \cup {WriteByte(b, 1).rb}
    \cup {r.rb : r \in {x \in {WriteTo(b, w) : w \in Sinks} : x.st = "ok"}}
    \cup {r.rb : r \in {x \in {readFromStep(b, pipe, n, err, Payload(content, n)) :
                                  pipe \in BOOLEAN,
                                  n \in 0..(b.blockSize - b.pw.i),
                                  err \in SourceErrs} : x.st = "ok"}}

Drained(b) ==
    /\ b.left = 0
    /\ b.cap = b.maxCap
    /\ b.pr.r = b.pw.r
    /\ b.pr.i = 0
    /\ b.pw.i = 0

CoreInvariant(b) ==
    /\ Cap(b) + BufLen(b) <= MaxCap(b)
    /\ MaxCap(b) - Cap(b) - BufLen(b) <= b.blockSize
    /\ MaxCap(b) - Cap(b) - BufLen(b) = b.pr.i

\* C1: under calls of Write, WriteString, WriteByte, Read and ReadByte the
\* buffer is a FIFO byte queue: no call panics, Bytes() is what was appended
\* and not yet consumed, Read(p) returns the first min(Len(), len(p)) bytes
\* and removes them, ReadByte returns and removes the first byte, and every
\* append, growing the ring or not, adds its bytes at the end.
C1_Fifo ==
    /\ st = "ok"
    /\ Bytes(rb).st = "ok"
    /\ Bytes(rb).out = content
    /\ \A lenp \in 0..MaxLen :
        LET r == Read(rb, lenp)
        IN /\ r.st = "ok"
           /\ r.n = Min(BufLen(rb), lenp)
           /\ Take(r.p, r.n) = Take(content, lenp)
           /\ Bytes(r.rb).st = "ok"
           /\ Bytes(r.rb).out = Drop(content, lenp)
    /\ content # <<>> =>
        LET r == ReadByte(rb)
        IN /\ r.st = "ok" /\ r.err = "nil"
           /\ r.c = Head(content)
           /\ Bytes(r.rb).out = Tail(content)
    /\ \A p \in Payloads(content) :
        /\ Write(rb, p).st = "ok"
        /\ Bytes(Write(rb, p).rb).out = content \o p
        /\ WriteString(rb, p).st = "ok"
        /\ Bytes(WriteString(rb, p).rb).out = content \o p
    /\ Bytes(WriteByte(rb, Payload(content, 1)[1]).rb).out
         = content \o Payload(content, 1)

\* A grown ring whose unread bytes start inside one block and end in
\* another, from which a Read crosses a block boundary.
C1_Witness ==
    /\ Len(rb.next) = 3
    /\ rb.pr.r # rb.pw.r
    /\ rb.pr.i > 0
    /\ BufLen(rb) >= MaxLen
    /\ Read(rb, MaxLen).rb.pr.r # rb.pr.r

\* C2: from every reachable state, Write(p) and WriteString(s) of more bytes
\* than Cap() succeed in full: they return (len(p), nil), the unread content
\* afterwards is the prior unread content followed by p, and Cap() >= 0.
C2_WriteBeyondCap ==
    st = "ok" =>
        \A p \in Payloads(content) :
            Len(p) > Cap(rb) =>
                /\ Bytes(rb).st = "ok"
                /\ \A r \in {Write(rb, p), WriteString(rb, p)} :
                    /\ r.st = "ok"
                    /\ r.n = Len(p)
                    /\ r.err = "nil"
                    /\ Bytes(r.rb).st = "ok"
                    /\ Bytes(r.rb).out = Bytes(rb).out \o p
                    /\ Cap(r.rb) >= 0

\* C3: in every state the public operations reach, and after one more call
\* of any of them, Cap() + Len() <= MaxCap(), and the deficit is at most one
\* block size and is the offset of the read cursor in its block.
C3_CoreInvariant ==
    st = "ok" => \A b \in {rb} \cup AfterCall(rb) : CoreInvariant(b)

\* Unread bytes in several blocks behind a read cursor inside its block.
C3_Witness ==
    /\ st = "ok"
    /\ rb.pr.i > 0
    /\ rb.pr.r # rb.pw.r
    /\ BufLen(rb) > rb.blockSize
    /\ MaxCap(rb) - Cap(rb) - BufLen(rb) = rb.pr.i

\* C4: under appending and consuming calls Len() is the number of bytes
\* appended less the number consumed since the last full reset, and is
\* never negative.
C4_Length ==
    /\ BufLen(rb) = Len(content)
    /\ BufLen(rb) >= 0

\* Bytes were appended across a block boundary by a pull of ReadFrom and
\* some were consumed.
C4_Witness ==
    /\ pc.at = "readFrom"
    /\ pc.total > rb.blockSize
    /\ rb.pr.i > 0
    /\ BufLen(rb) > pc.total

\* C5: a consuming call (Read, ReadByte, Skip, WriteTo) that brings Len() to
\* 0 leaves Cap() = MaxCap() and both cursors in one block at offset 0; so
\* do Reset, Close and Truncate(0).
C5_DrainResets ==
    st = "ok" =>
        /\ \A lenp \in 0..MaxLen :
            LET r == Read(rb, lenp)
            IN r.st = "ok" /\ BufLen(r.rb) = 0 => Drained(r.rb)
        /\ LET r == ReadByte(rb)
           IN r.st = "ok" /\ BufLen(r.rb) = 0 => Drained(r.rb)
        /\ \A n \in -1..BufLen(rb) + 1 :
            BufLen(Skip(rb, n)) = 0 => Drained(Skip(rb, n))
        /\ \A w \in Sinks :
            LET r == WriteTo(rb, w)
            IN r.st = "ok" /\ BufLen(r.rb) = 0 => Drained(r.rb)
        /\ Drained(Reset(rb))
        /\ Drained(Close(rb).rb)
        /\ Drained(Truncate(rb, 0))

\* Unread bytes in two blocks that one Read, one Skip or one WriteTo drains.
C5_Witness ==
    /\ st = "ok"
    /\ rb.pr.r # rb.pw.r
    /\ rb.pr.i > 0
    /\ BufLen(rb) > 0
    /\ BufLen(Read(rb, MaxLen).rb) = 0
    /\ BufLen(Skip(rb, BufLen(rb))) = 0
    /\ BufLen(WriteTo(rb, BytesBuffer).rb) = 0

\* C6: Truncate(n) for 0 <= n <= Len(): afterwards Bytes() is the first n
\* bytes of the prior content, Len() = n, Cap() has grown by the number of
\* discarded bytes, and a following Write appends right after those n bytes.
C6_Truncate ==
    st = "ok" /\ check(rb, content) =>
        \A n \in 0..BufLen(rb) :
            LET t == Truncate(rb, n)
            IN /\ Bytes(t).st = "ok"
               /\ Bytes(t).out = Take(content, n)
               /\ BufLen(t) = n
               /\ Cap(t) = Cap(rb) + (BufLen(rb) - n)
               /\ \A p \in Payloads(Take(content, n)) :
                    /\ Write(t, p).st = "ok"
                    /\ Bytes(Write(t, p).rb).out = Take(content, n) \o p

\* C7: Skip(n) with k = n clamped to [0, Len()]: Len() decreases by k and
\* Bytes() afterwards is the prior content less its first k bytes; Skip(0),
\* Skip of a negative n and Skip on an empty buffer change nothing.
C7_Skip ==
    st = "ok" =>
        \A n \in -1..BufLen(rb) + 1 :
            LET k == IF n < 0 THEN 0 ELSE Min(n, BufLen(rb))
                s == Skip(rb, n)
            IN /\ BufLen(s) = BufLen(rb) - k
               /\ Bytes(rb).st = "ok"
               /\ Bytes(s).st = "ok"
               /\ Bytes(s).out = Drop(Bytes(rb).out, k)
               /\ (k = 0 => s = rb)

\* C8: Peek() returns spans whose concatenation is the unread content, of
\* total length Len(), which is what a full Read returns.
C8_Peek ==
    st = "ok" =>
        /\ Peek(rb).st = "ok"
        /\ Concat(Peek(rb).list) = content
        /\ Len(Concat(Peek(rb).list)) = BufLen(rb)
        /\ BufLen(rb) > 0 =>
            Concat(Peek(rb).list) = Read(rb, BufLen(rb)).p

\* C9: Bytes() and String() return the unread content, of length Len(), and
\* leave the cursors, Len(), Cap() and MaxCap() as they were.
C9_Bytes ==
    st = "ok" =>
        \A r \in {Bytes(rb), String(rb)} :
            /\ r.st = "ok"
            /\ r.out = content
            /\ Len(r.out) = BufLen(rb)
            /\ r.rb = rb

\* C10: WriteTo(sink) with a sink that accepts only a leading part of what a
\* call offers it, without an error: the bytes the sink received followed by
\* the bytes still buffered are the content before the call, and Len()
\* decreases by the number of bytes accepted.
C10_ShortSink ==
    st = "ok" /\ check(rb, content) =>
        \A w \in Sinks :
            LET r == WriteTo(rb, w)
            IN /\ r.st = "ok"
               /\ r.n = Len(r.got)
               /\ r.got \o Bytes(r.rb).out = content
               /\ BufLen(r.rb) = BufLen(rb) - r.n

\* C11: moving a buffer that holds s into a fresh buffer dst, by
\* src.WriteTo(dst) or by dst.ReadFrom(src), leaves dst holding s and src
\* drained with Len() = 0 and Cap() = MaxCap().
C11_Transfer ==
    st = "ok" /\ check(rb, content) =>
        \A ns \in NewArgs :
            /\ \E r \in {WriteToBuffer(rb, NewSmall(ns))} :
                /\ r.src.st = "ok"
                /\ r.src.err = "nil"
                /\ r.src.n = Len(content)
                /\ r.dst.st = "ok"
                /\ check(r.dst.rb, content)
                /\ BufLen(r.src.rb) = 0
                /\ Cap(r.src.rb) = MaxCap(r.src.rb)
            /\ \E r \in {readFromBuffer(NewSmall(ns), rb, FALSE, 0)} :
                /\ r.st = "ok"
                /\ r.err = "nil"
                /\ r.total = Len(content)
                /\ check(r.dst, content)
                /\ BufLen(r.src) = 0
                /\ Cap(r.src) = MaxCap(r.src)

\* C12: ReadFromPipe returns as soon as a pull yields fewer bytes than the
\* region offered, or the source reports an error; ReadFrom goes on after
\* short pulls and returns only at end-of-stream, with a nil error, or at a
\* source error.  In both the bytes of every pull are appended in order and
\* counted in the total.
C12_PullStops ==
    st = "ok" /\ pc.at = "readFrom" /\ check(rb, content) =>
        /\ pc.total = Len(content) - pc.start
        /\ \A n \in 0..(rb.blockSize - rb.pw.i), err \in SourceErrs :
            \E r \in {readFromStep(rb, pc.pipe, n, err, Payload(content, n))} :
                /\ r.st = "ok"
                /\ r.n = n
                /\ r.done <=> IF pc.pipe
                              THEN err # "nil" \/ n < rb.blockSize - rb.pw.i
                              ELSE err # "nil"
                /\ r.done /\ ~pc.pipe /\ err = "EOF" => r.err = "nil"
                /\ ~r.done => r.err = "nil"
                /\ check(r.rb, content \o Payload(content, n))
                /\ pc.total + r.n = Len(content) + n - pc.start

\* C13: a source that returns a negative count during ReadFrom or
\* ReadFromPipe makes the call panic with the negative-count message before
\* anything is changed for that pull: the buffer is as it was before it.
C13_NegativeCount ==
    st = "ok" /\ pc.at = "readFrom" =>
        \A n \in {-2, -1}, err \in SourceErrs :
            \E r \in {readFromStep(rb, pc.pipe, n, err, <<>>)} :
                /\ r.st = "panic"
                /\ r.err = "bring.Buffer: reader returned negative count from Read"
                /\ r.done
                /\ r.n = 0
                /\ r.rb = rb

\* A ReadFrom on a buffer that holds bytes has ended in the panic, and the
\* buffer still holds them.
C13_Witness ==
    /\ st = "panic"
    /\ pc.at = "idle"
    /\ content # <<>>
    /\ rb.pw.i > 0
    /\ check(rb, content)

\* C14: a source error other than end-of-stream that comes with k >= 0 bytes
\* reaches the caller of ReadFrom / ReadFromPipe unchanged, the k bytes are
\* appended after those of the earlier pulls and counted in the total, and
\* the counters stay consistent; a sink error after j accepted bytes is
\* returned by WriteTo, exactly j bytes are retired and the rest stays
\* buffered in order.
C14_PartialProgress ==
    st = "ok" /\ check(rb, content) =>
        /\ pc.at = "readFrom" =>
            \A n \in 0..(rb.blockSize - rb.pw.i) :
                \E r \in {readFromStep(rb, pc.pipe, n, "timeout",
                                       Payload(content, n))} :
                    /\ r.st = "ok"
                    /\ r.done
                    /\ r.err = "timeout"
                    /\ r.n = n
                    /\ pc.total + r.n = Len(content) + n - pc.start
                    /\ check(r.rb, content \o Payload(content, n))
                    /\ CoreInvariant(r.rb)
        /\ \A w \in {x \in Sinks : x.shortErr} :
            \E r \in {WriteTo(rb, w)} :
                /\ r.st = "ok"
                /\ r.err \in {"nil", "short write"}
                /\ r.err = "nil" => r.n = Len(content)
                /\ r.n = Len(r.got)
                /\ r.got = Take(content, r.n)
                /\ check(r.rb, Drop(content, r.n))
                /\ CoreInvariant(r.rb)

\* C15: on an empty buffer Read with a non-empty destination returns
\* (0, EOF) and ReadByte returns EOF, and nothing changes; Read with an empty
\* destination returns (0, nil) and changes nothing; a Read or ReadByte that
\* returns a byte reports no EOF, also when it drains the buffer.
C15_EndOfData ==
    st = "ok" =>
        /\ \E r \in {Read(rb, 0)} :
            r.st = "ok" /\ r.n = 0 /\ r.err = "nil" /\ r.rb = rb
        /\ BufLen(rb) = 0 =>
            /\ \A lenp \in 1..MaxLen :
                \E r \in {Read(rb, lenp)} :
                    r.st = "ok" /\ r.n = 0 /\ r.err = "EOF" /\ r.rb = rb
            /\ \E r \in {ReadByte(rb)} :
                r.st = "ok" /\ r.err = "EOF" /\ r.rb = rb
        /\ BufLen(rb) > 0 =>
            /\ \A lenp \in 1..MaxLen :
                \E r \in {Read(rb, lenp)} :
                    r.st = "ok" => r.n >= 1 /\ r.err = "nil"
            /\ \E r \in {ReadByte(rb)} :
                r.st = "ok" => r.err = "nil"

\* A buffer that grew and was emptied by its readers, and one that a Read of
\* one more byte would empty.
C15_Witness ==
    /\ st = "ok"
    /\ BufLen(rb) = 1
    /\ rb.pr.i > 0
    /\ Len(rb.next) > 1
    /\ Read(rb, MaxLen).n = 1
    /\ BufLen(Read(rb, MaxLen).rb) = 0
    /\ Read(Read(rb, MaxLen).rb, MaxLen).err = "EOF"

\* C16: New(blockSize, blockCount) floors blockSize to 512 and blockCount
\* to 1, an argument not given counting as 0, and returns a buffer with
\* Len() = 0, Cap() = MaxCap() = blockSize x blockCount and both cursors at
\* offset 0 of the same block; New() has Cap() = 512, and Cap() = 508 after
\* 4 bytes were written to it.
C16_Construction ==
    /\ \A ns \in NewArgsFull :
        LET size0 == IF Len(ns) >= 1 THEN ns[1] ELSE 0
            n0 == IF Len(ns) >= 2 THEN ns[2] ELSE 0
            size == IF size0 > 512 THEN size0 ELSE 512
            n == IF n0 > 1 THEN n0 ELSE 1
        IN \E b \in {New(ns)} :
            /\ BufLen(b) = 0
            /\ Cap(b) = size * n
            /\ MaxCap(b) = size * n
            /\ b.blockSize = size
            /\ b.pr = b.pw
            /\ b.pr.i = 0
            /\ RingLen(b.next, b.pw.r) = n
            /\ \A k \in 1..n : ringBytes(b, k) = Zeros(size)
    /\ Cap(New(<<>>)) = 512
    /\ \A p \in {q \in Payloads(<<>>) : Len(q) > 0} :
        Cap(WriteByte(Write(New(<<>>), p).rb, 1).rb) = 511 - Len(p)
    /\ st = "ok" /\ MaxCap(rb) = 512 /\ rb.pr.i = 0 /\ BufLen(rb) = 4 =>
        Cap(rb) = 508

\* 4 bytes were written to the buffer of New().
C16_Witness ==
    /\ st = "ok"
    /\ rb.next = New(<<>>).next
    /\ rb.blockSize = 512
    /\ MaxCap(rb) = 512
    /\ rb.pr.i = 0
    /\ rb.pw.i = 4
    /\ BufLen(rb) = 4
    /\ Cap(rb) = 508

\* The blocks in the ring of b.
Blocks(b) == RingLen(b.next, b.pw.r)

\* C17 as stated: a Write or WriteString that needs d = len(p) - Cap() > 0
\* more bytes grows the ring by m = ceil(d / blockSize) blocks, and MaxCap()
\* and Cap() rise by m x blockSize (Cap() then falls by len(p)).
C17_GrowthCeil ==
    st = "ok" =>
        \A p \in Payloads(content) :
            Len(p) > Cap(rb) =>
                LET d == Len(p) - Cap(rb)
                    m == (d + rb.blockSize - 1) \div rb.blockSize
                IN \A r \in {Write(rb, p), WriteString(rb, p)} :
                    /\ Blocks(r.rb) = Blocks(rb) + m
                    /\ MaxCap(r.rb) = MaxCap(rb) + m * rb.blockSize
                    /\ Cap(r.rb) = Cap(rb) + m * rb.blockSize - Len(p)

\* C17 as amended: the ring grows by m = floor(d / blockSize) + 1 blocks,
\* one block more than ceil(d / blockSize) when d is a multiple of
\* blockSize, and MaxCap() and Cap() rise by m x blockSize.
C17_GrowthAmount ==
    st = "ok" =>
        \A p \in Payloads(content) :
            Len(p) > Cap(rb) =>
                LET d == Len(p) - Cap(rb)
                    m == (d \div rb.blockSize) + 1
                IN \A r \in {Write(rb, p), WriteString(rb, p)} :
                    /\ r.st = "ok"
                    /\ Blocks(r.rb) = Blocks(rb) + m
                    /\ MaxCap(r.rb) = MaxCap(rb) + m * rb.blockSize
                    /\ Cap(r.rb) = Cap(rb) + m * rb.blockSize - Len(p)
                    /\ m * rb.blockSize >= d
                    /\ m = IF d % rb.blockSize = 0
                           THEN (d + rb.blockSize - 1) \div rb.blockSize + 1
                           ELSE (d + rb.blockSize - 1) \div rb.blockSize

\* A ring that has grown and holds bytes, with a Write that needs a whole
\* block more and one that needs less than a block.
C17_Witness ==
    /\ st = "ok"
    /\ Len(rb.next) > 1
    /\ BufLen(rb) > 0
    /\ Cap(rb) = 1
    /\ rb.blockSize = BlockFloor
    /\ Blocks(Write(rb, Payload(content, BlockFloor + 1)).rb) = Blocks(rb) + 2
    /\ Blocks(Write(rb, Payload(content, BlockFloor)).rb) = Blocks(rb) + 1

\* C18: MaxCap() never decreases, changes only when the ring grows, and is
\* blockSize x the number of blocks in the ring; no operation removes a
\* block.
C18_MaxCapMonotone ==
    st = "ok" =>
        /\ MaxCap(rb) = rb.blockSize * Blocks(rb)
        /\ Blocks(rb) = Len(rb.next)
        /\ \A b \in AfterCall(rb) :
            /\ MaxCap(b) >= MaxCap(rb)
            /\ b.blockSize = rb.blockSize
            /\ Blocks(b) >= Blocks(rb)
            /\ Blocks(b) = Len(b.next)
            /\ MaxCap(b) # MaxCap(rb) <=> Blocks(b) # Blocks(rb)
            /\ MaxCap(b) = b.blockSize * Blocks(b)
            /\ \A k \in 1..Len(rb.next) :
                RingLen(b.next, k) = Blocks(b)

\* A ring that grew to three blocks and was emptied since.
C18_Witness ==
    /\ st = "ok"
    /\ Len(rb.next) = 3
    /\ BufLen(rb) = 0
    /\ MaxCap(rb) = 3 * rb.blockSize
    /\ Cap(rb) = MaxCap(rb)

\* C19: no call of the public operations, from any state they reach, fails
\* an assert: stepNext(true) finds the read offset at blockSize and the read
\* cursor in another block than the write cursor, and the write loop
\* crosses a block boundary at offset blockSize, with Cap() >= len(p) after
\* growing.
C19_NoAssert ==
    /\ st # "assert"
    /\ st = "ok" =>
        /\ \A lenp \in 0..MaxLen : Read(rb, lenp).st # "assert"
        /\ ReadByte(rb).st # "assert"
        /\ \A p \in Payloads(content) :
            /\ Write(rb, p).st # "assert"
            /\ WriteString(rb, p).st # "assert"
        /\ \A ns \in NewArgs :
            readFromBuffer(NewSmall(ns), rb, FALSE, 0).st # "assert"

\* C20: for 0 < n <= Len(), Skip(n) and Read into n bytes end in the same
\* state: the same read cursor, write cursor, Len() and Cap().
C20_SkipMirrorsRead ==
    st = "ok" =>
        \A n \in 1..MaxLen :
            n <= BufLen(rb) =>
                \E r \in {Read(rb, n)} :
                    \E s \in {Skip(rb, n)} :
                        /\ r.st = "ok"
                        /\ s.pr = r.rb.pr
                        /\ s.pw = r.rb.pw
                        /\ BufLen(s) = BufLen(r.rb)
                        /\ Cap(s) = Cap(r.rb)

\* C21: Truncate(n) with n >= Len() and n > 0 changes nothing; Truncate(n)
\* with n <= 0 ends in the state Reset produces; Truncate(n) with
\* 0 < n < Len() leaves the read cursor and MaxCap() as they were.
C21_TruncateFrame ==
    st = "ok" =>
        \A n \in -1..(MaxBytes + 1) :
            \E t \in {Truncate(rb, n)} :
                /\ n > 0 /\ n >= BufLen(rb) => t = rb
                /\ n <= 0 => t = Reset(rb)
                /\ 0 < n /\ n < BufLen(rb) =>
                    /\ t.pr = rb.pr
                    /\ MaxCap(t) = MaxCap(rb)
                    /\ t.next = rb.next
                    /\ t.blockSize = rb.blockSize

\* The unread bytes lie in two blocks behind a read cursor inside its
\* block: Truncate(1) moves the write cursor, Truncate(0) moves both.
C21_Witness ==
    /\ st = "ok"
    /\ BufLen(rb) > 1
    /\ rb.pr.i > 0
    /\ rb.pr.r # rb.pw.r
    /\ Truncate(rb, 1).pw # rb.pw
    /\ Truncate(rb, 0).pr # rb.pr
    /\ Truncate(rb, BufLen(rb)) = rb

\* The block both cursors occupy right after construction.
Origin == NewSmall(<<>>).pw.r

\* The states a full logical reset of b ends in: Reset, Close,
\* Truncate(n <= 0), and the consuming calls that bring Len() to 0.
FullResets(b) ==
    {Reset(b), Close(b).rb, Truncate(b, 0), Truncate(b, -1)}
    \cup (IF BufLen(b) <= 0 THEN {} ELSE
          {Skip(b, n) : n \in BufLen(b)..(BufLen(b) + 1)}
          \cup {r.rb : r \in {x \in {Read(b, lenp) : lenp \in 1..(MaxBytes + 1)} :
                                  x.st = "ok" /\ BufLen(x.rb) = 0}}
          \cup {r.rb : r \in {x \in {ReadByte(b)} :
                                  x.st = "ok" /\ BufLen(x.rb) = 0}}
          \cup {r.rb : r \in {x \in {WriteTo(b, w) : w \in Sinks} :
                                  x.st = "ok" /\ BufLen(x.rb) = 0}})

\* C22 as stated: every full logical reset puts both cursors at offset 0 of
\* the block they occupied right after construction, with
\* Cap() = MaxCap().
C22_ResetAtOrigin ==
    st = "ok" =>
        \A b \in FullResets(rb) :
            /\ b.pr = [r |-> Origin, i |-> 0]
            /\ b.pw = [r |-> Origin, i |-> 0]
            /\ Cap(b) = MaxCap(b)

\* C22 as amended: every full logical reset puts both cursors at offset 0
\* of the block the write cursor is in at that moment, which need not be
\* the block of construction, with Len() = 0 and Cap() = MaxCap().
C22_ResetAtWriteBlock ==
    st = "ok" =>
        \A b \in FullResets(rb) :
            /\ b.pr = [r |-> rb.pw.r, i |-> 0]
            /\ b.pw = [r |-> rb.pw.r, i |-> 0]
            /\ BufLen(b) = 0
            /\ Cap(b) = MaxCap(b)

\* A buffer that was drained while its write cursor was in a block added
\* by growth: both cursors are at offset 0 of that block.
C22_Witness ==
    /\ st = "ok"
    /\ BufLen(rb) = 0
    /\ rb.pw.r # Origin
    /\ rb.pr = rb.pw
    /\ rb.pw.i = 0
    /\ Cap(rb) = MaxCap(rb)
    /\ content = <<>>

\* The blocks from the read cursor's forward to the write cursor's, both
\* counted.
DataBlocks(b) ==
    IF b.pr.r = b.pw.r THEN 1 ELSE RingWalk(b.next, b.pw.r, b.pr.r, 2)

\* The byte positions from the read cursor forward to the write cursor.
CursorLen(b) ==
    IF b.pr.r = b.pw.r
    THEN b.pw.i - b.pr.i
    ELSE (b.blockSize - b.pr.i) + b.blockSize * (DataBlocks(b) - 2) + b.pw.i

\* The rest of the write cursor's block and the blocks with no unread data.
CursorCap(b) ==
    (b.blockSize - b.pw.i) + b.blockSize * (Blocks(b) - DataBlocks(b))

\* C23: in every reachable state Len() is the number of byte positions
\* from the read cursor forward to the write cursor, Cap() is the rest of
\* the write cursor's block plus blockSize for every block with no unread
\* data, so Cap() >= 0; with both cursors in one block the write offset is
\* not below the read offset.
C23_CountersMatchCursors ==
    st = "ok" =>
        /\ BufLen(rb) = CursorLen(rb)
        /\ Cap(rb) = CursorCap(rb)
        /\ Cap(rb) >= 0
        /\ rb.pr.r = rb.pw.r => rb.pw.i >= rb.pr.i

\* The blocks that hold n >= 1 bytes from offset i of a block on.
SpanBlocks(b, i, n) == (i + n + b.blockSize - 1) \div b.blockSize

\* The turns of the loop of Read, k counting the one under way.
RECURSIVE ReadTurns(_, _, _, _)
ReadTurns(b, lenp, offset, k) ==
    LET end == IF b.pr.r = b.pw.r THEN b.pw.i ELSE b.blockSize
        count == Min(lenp - offset, end - b.pr.i)
    IN IF b.pr.i > end
       THEN k
       ELSE IF b.left - count = 0 \/ offset + count = lenp
       THEN k
       ELSE IF b.pr.i + count # b.blockSize \/ b.pr.r = b.pw.r
       THEN k
       ELSE ReadTurns([b EXCEPT !.pr = [r |-> b.next[b.pr.r], i |-> 0],
                                !.left = @ - count],
                      lenp, offset + count, k + 1)

\* The turns of the loop of Write and WriteString.
RECURSIVE WriteTurns(_, _, _, _)
WriteTurns(b, lenp, offset, k) ==
    LET cnt == Min(b.blockSize - b.pw.i, lenp - offset)
    IN IF lenp = offset + cnt
       THEN k
       ELSE IF b.pw.i + cnt # b.blockSize
       THEN k
       ELSE WriteTurns([b EXCEPT !.pw = [r |-> b.next[b.pw.r], i |-> 0]],
                       lenp, offset + cnt, k + 1)

\* The turns of the loop of Truncate.
RECURSIVE TruncateTurns(_, _, _)
TruncateTurns(b, m, k) ==
    IF m <= 0
    THEN k
    ELSE IF b.blockSize - b.pw.i < m
    THEN TruncateTurns([b EXCEPT !.pw = [r |-> b.next[b.pw.r], i |-> 0]],
                       m - b.blockSize, k + 1)
    ELSE k + 1

\* The turns of the loops of Skip.
SkipTurns(b, n0) ==
    LET n == IF n0 > b.left THEN b.left ELSE n0
        n1 == n - (b.blockSize - b.pr.i)
    IN IF n <= 0 \/ b.left - n = 0 \/ b.pr.i + n <= b.blockSize
       THEN 0
       ELSE IF n1 % b.blockSize > 0
       THEN n1 \div b.blockSize + 1
       ELSE n1 \div b.blockSize

\* The loops of Read, Write, Peek, Truncate, Skip and WriteTo on b finish
\* within the blocks that hold the bytes they are about.
LoopsFinish(b) ==
    /\ BufLen(b) > 0 =>
        /\ \A lenp \in 1..MaxLen :
            /\ Read(b, lenp).st # "hang"
            /\ ReadTurns(b, lenp, 0, 1)
                 <= SpanBlocks(b, b.pr.i, Min(lenp, BufLen(b)))
        /\ \E pk \in {Peek(b)} :
            /\ pk.st # "hang"
            /\ Len(pk.list) <= SpanBlocks(b, b.pr.i, BufLen(b))
        /\ \A n \in 1..(BufLen(b) - 1) :
            TruncateTurns([b EXCEPT !.pw = b.pr], n, 0)
                <= SpanBlocks(b, b.pr.i, n)
        /\ \A n \in 1..BufLen(b) :
            SkipTurns(b, n) <= SpanBlocks(b, b.pr.i, n)
        /\ \A w \in Sinks : WriteTo(b, w).st # "hang"
    /\ \A lenp \in 1..MaxLen :
        WriteTurns(IF b.cap < lenp THEN grow(b, lenp - b.cap) ELSE b,
                   lenp, 0, 1)
            <= SpanBlocks(b, b.pw.i, lenp)

\* C24, the loops: from every reachable state the loops of Read, Write,
\* Peek, Truncate, Skip and WriteTo finish after walking at most the blocks
\* that hold the bytes concerned.
LoopsBounded == st = "ok" => LoopsFinish(rb)

\* C24, the calls: a ReadFrom or ReadFromPipe under way returns, when its
\* source gives it a reason to after finitely many pulls.
ReadFromReturns == (pc.at = "readFrom") ~> (pc.at = "idle")

\* C24: ReadFrom terminates for every source that signals end-of-stream or
\* an error after finitely many pulls, ReadFromPipe for every source that
\* then signals or returns less than offered, and the loops of Read, Write,
\* Peek, Truncate, Skip and WriteTo finish after walking at most the blocks
\* of the ring that hold the bytes concerned.
C24_Termination == []LoopsBounded /\ ReadFromReturns

====
